---- MODULE Spec2Model ----
(***************************************************************************)
(* Model of backend/app/embeddings.py (ingestion into the shared vector   *)
(* collection, retrieval, response generation) and of the chat route in   *)
(* backend/app/routes/chatbot.py.                                          *)
(*                                                                         *)
(* Texts (document texts, profile field values, messages) are sequences   *)
(* of one-character strings, so that slicing, tag stripping and length    *)
(* tests are computed as the code computes them.  Identifiers (document   *)
(* ids, user ids, visitor ids, categories) are strings.                   *)
(***************************************************************************)
EXTENDS Integers, Sequences, FiniteSets, TLC

VARIABLES
    corpus,     \* the documents of the "portfolio_data" collection
    addMode,    \* how collection.add treats an id that is already stored
    pc,         \* per call in flight: the statement it is at
    args,       \* per call: the arguments it was called with
    locals,     \* per call: its local variables
    ret,        \* per caller: what the last call returned
    lastProfile,\* per owner: the most recent completed profile ingestion
    nops        \* calls started so far

vars == <<corpus, addMode, pc, args, locals, ret, lastProfile, nops>>

-----------------------------------------------------------------------------
(* Bounds of the model *)

MaxOps == 3
MaxCorpus == 3
MaxTextLen == 2801     \* the longest content text of a chunked project
MaxChunkCalls == 1     \* ingestions of a long content text in one behaviour

-----------------------------------------------------------------------------
(* Python values *)

\* None in a slot that otherwise holds an identifier string.
PyNone == "<None>"

\* f"{x}" for an identifier or None.
Fmt(x) == IF x = PyNone THEN "None" ELSE x

\* d.get(k) is truthy, for a key that holds a text or a list: the key is
\* present and its value is not empty.
Truthy(d, k) == k \in DOMAIN d /\ d[k] # <<>>

\* x is truthy, for an identifier or None
TruthyId(x) == x # "" /\ x # PyNone

\* d.get(k, default) for an identifier-valued key
GetId(d, k) == IF k \in DOMAIN d THEN d[k] ELSE PyNone

Range(s) == {s[i] : i \in 1..Len(s)}

RECURSIVE Flatten(_)
Flatten(ss) == IF ss = <<>> THEN <<>> ELSE Head(ss) \o Flatten(Tail(ss))

-----------------------------------------------------------------------------
(* The collection service (chromadb), as the code uses it *)

Ids(c) == {d.id : d \in c}

\* a where clause that names the category only in the metadata key it tests
\* for the owner, so that it matches no stored document
DeleteCategoryOwner_MatchesNothing(c, cat, uid) ==
    {d \in c : ~(d.meta.category = cat /\ GetId(d.meta, "owner") = uid)}

\* collection.delete(where={"$and": [category == cat, user_id == uid]})
DeleteCategoryOwner(c, cat, uid) ==
    {d \in c : ~(d.meta.category = cat /\ GetId(d.meta, "user_id") = uid)}

\* collection.delete(where={"category": cat})
DeleteCategory_Everything(c, cat) == {}

DeleteCategory(c, cat) == {d \in c : d.meta.category # cat}

\* collection.add raises when the batch repeats an id, and, in the builds
\* that reject them, when an id is already stored.
AddRaises(c, batch, mode) ==
    \/ \E i, j \in 1..Len(batch) : i # j /\ batch[i].id = batch[j].id
    \/ mode = "raise" /\ \E i \in 1..Len(batch) : batch[i].id \in Ids(c)

\* collection.add when it does not raise: ids already stored are left alone.
AddDocs(c, batch) == c \cup {d \in Range(batch) : d.id \notin Ids(c)}

-----------------------------------------------------------------------------
(* add_profile_to_vector_db: the documents of a profile *)

ProfileFields ==
    <<"name", "location", "bio", "skills", "experience", "projects", "interests">>

\* effective_user_id = user_id or profile_data.get("user_id"), else "default"
EffectiveUserId(profile_data, user_id) ==
    LET e == IF TruthyId(user_id) THEN user_id ELSE GetId(profile_data, "user_id")
    IN  IF TruthyId(e) THEN e ELSE "default"

\* the document, metadata and id appended for one profile field
ProfileDoc(profile_data, f, uid) ==
    [id   |-> f \o "_" \o Fmt(uid),
     text |-> profile_data[f],
     meta |-> [category |-> "profile", subcategory |-> f, user_id |-> uid]]

\* the seven "if profile_data.get(<field>)" blocks, in source order
ProfileDocs(profile_data, uid) ==
    Flatten([i \in 1..Len(ProfileFields) |->
        IF Truthy(profile_data, ProfileFields[i])
        THEN <<ProfileDoc(profile_data, ProfileFields[i], uid)>>
        ELSE <<>>])

-----------------------------------------------------------------------------
(* add_projects_to_vector_db: the documents of a project list *)

ChunkThreshold == 1000
chunk_size == 1000
overlap == 100

Min(a, b) == IF a < b THEN a ELSE b

\* re.sub(r'<[^>]*>', ' ', s)
RECURSIVE StripTags(_)
StripTags(s) ==
    IF s = <<>> THEN <<>>
    ELSE IF Head(s) = "<" /\ \E j \in 2..Len(s) : s[j] = ">"
         THEN LET j == CHOOSE k \in 2..Len(s) :
                          s[k] = ">" /\ \A m \in 2..(k - 1) : s[m] # ">"
              IN  <<" ">> \o StripTags(SubSeq(s, j + 1, Len(s)))
         ELSE <<Head(s)>> \o StripTags(Tail(s))

\* Structured (Lexical) payloads the model knows how to parse.
LexicalWithHtml ==
    <<"{", "\"", "h", "t", "m", "l", "\"", ":", "\"", "<", "p", ">", "h", "i",
      "<", "/", "p", ">", "\"", "}">>
LexicalNoHtml == <<"{", "}">>
JsonList == <<"[", "]">>

\* json.loads(content): a dict (with its "html" entry, empty when absent),
\* another JSON value, or a parse error.
JsonLoads(s) ==
    CASE s = LexicalWithHtml ->
            [kind |-> "dict", html |-> <<"<", "p", ">", "h", "i", "<", "/", "p", ">">>]
      [] s = LexicalNoHtml -> [kind |-> "dict", html |-> <<>>]
      [] s = JsonList -> [kind |-> "list", html |-> <<>>]
      [] OTHER -> [kind |-> "error", html |-> <<>>]

\* a content that is not rendered HTML is left out
ContentText_DropsUnparsed(project) ==
    IF ~Truthy(project, "content") THEN <<>>
    ELSE IF Truthy(project, "content_html") THEN StripTags(project["content_html"])
    ELSE LET content_data == JsonLoads(project["content"])
         IN  IF content_data.kind = "dict" /\ content_data.html # <<>>
             THEN StripTags(content_data.html)
             ELSE <<>>

\* content_text of one project
ContentText(project) ==
    IF ~Truthy(project, "content") THEN <<>>
    ELSE IF Truthy(project, "content_html") THEN StripTags(project["content_html"])
    ELSE LET content_data == JsonLoads(project["content"])
         IN  IF content_data.kind = "dict" /\ content_data.html # <<>>
             THEN StripTags(content_data.html)
             ELSE project["content"]  \* no html, not a dict, or not JSON

\* windows that advance by the whole chunk_size
Chunks_NoOverlap(content_text) ==
    LET n == Len(content_text)
    IN  [k \in 1..(((n - 1) \div chunk_size) + 1) |->
            SubSeq(content_text, (k - 1) * chunk_size + 1,
                   Min(k * chunk_size, n))]

\* the sliding windows of a content text longer than the threshold
Chunks(content_text) ==
    LET n == Len(content_text)
        step == chunk_size - overlap
    IN  [k \in 1..(((n - 1) \div step) + 1) |->
            SubSeq(content_text, (k - 1) * step + 1,
                   Min((k - 1) * step + chunk_size, n))]

ProjectCategory(project) ==
    IF "category" \in DOMAIN project THEN project["category"] ELSE ""

\* the document of one single-field entry (title, description, details, or
\* an unchunked content)
ProjectFieldDoc(project, sub, text, user_id) ==
    [id   |-> "project_" \o sub \o "_" \o Fmt(project["id"]) \o "_" \o Fmt(user_id),
     text |-> text,
     meta |-> [category |-> "project", subcategory |-> sub,
               project_id |-> project["id"],
               project_category |-> ProjectCategory(project),
               user_id |-> user_id]]

\* the document of chunk i (0-based) of a chunked content
ProjectChunkDoc(project, i, chunks, user_id) ==
    [id   |-> "project_content_" \o Fmt(project["id"]) \o "_" \o ToString(i)
                  \o "_" \o Fmt(user_id),
     text |-> chunks[i + 1],
     meta |-> [category |-> "project", subcategory |-> "content",
               chunk_index |-> i, total_chunks |-> Len(chunks),
               project_id |-> project["id"],
               project_category |-> ProjectCategory(project),
               user_id |-> user_id]]

ProjectContentDocs(project, user_id) ==
    LET content_text == ContentText(project)
    IN  IF content_text = <<>> THEN <<>>
        ELSE IF Len(content_text) > ChunkThreshold
        THEN LET chunks == Chunks(content_text)
             IN  [k \in 1..Len(chunks) |-> ProjectChunkDoc(project, k - 1, chunks, user_id)]
        ELSE <<ProjectFieldDoc(project, "content", content_text, user_id)>>

\* the body of "for project in projects_list" for one project
OneProjectDocs(project, user_id) ==
    IF ~("id" \in DOMAIN project /\ TruthyId(project["id"])) THEN <<>>
    ELSE Flatten([i \in 1..3 |->
            LET sub == <<"title", "description", "details">>[i]
            IN  IF Truthy(project, sub)
                THEN <<ProjectFieldDoc(project, sub, project[sub], user_id)>>
                ELSE <<>>])
         \o ProjectContentDocs(project, user_id)

ProjectDocs(projects_list, user_id) ==
    Flatten([i \in 1..Len(projects_list) |-> OneProjectDocs(projects_list[i], user_id)])

\* profile_data.get("project_list", [])
ProjectListOf(profile_data) ==
    IF "project_list" \in DOMAIN profile_data THEN profile_data["project_list"] ELSE <<>>

-----------------------------------------------------------------------------
(* add_conversation_to_vector_db: the document of one exchange *)

UserAsked == <<"U", "s", "e", "r", " ", "a", "s", "k", "e", "d", ":", " ">>
YouResponded ==
    <<"\n", "Y", "o", "u", " ", "r", "e", "s", "p", "o", "n", "d", "e", "d", ":", " ">>

ConversationDoc(message, response, visitor_id, message_id, user_id, timestamp) ==
    [id   |-> "conversation_" \o Fmt(message_id),
     text |-> UserAsked \o message \o YouResponded \o response,
     meta |-> IF TruthyId(user_id)
              THEN [category |-> "conversation", subcategory |-> "exchange",
                    visitor_id |-> visitor_id, timestamp |-> timestamp,
                    user_id |-> user_id]
              ELSE [category |-> "conversation", subcategory |-> "exchange",
                    visitor_id |-> visitor_id, timestamp |-> timestamp]]

\* str(uuid.uuid4()): an id no earlier call has produced
Uuid(n) == "uuid" \o ToString(n)

-----------------------------------------------------------------------------
(* Inputs *)

Ada == <<"A", "d", "a">>
BioAda == <<"I", " ", "a", "m", " ", "A", "d", "a">>
Bob == <<"B", "o", "b">>

ProjA == [id |-> "p1", title |-> <<"T", "1">>, content |-> <<"r", "a", "w">>]
ProjB == [id |-> "p2", description |-> <<"D", "2">>, content |-> LexicalWithHtml,
          category |-> "web"]
ProjNoId == [title |-> <<"T", "0">>]

ProfileCalls ==
    { [user_id |-> "u1", profile_data |-> [name |-> Ada, bio |-> BioAda]],
      [user_id |-> "u1",
       profile_data |-> [name |-> <<>>, bio |-> <<"x">>, location |-> <<"L">>,
                         project_list |-> <<ProjA>>]],
      [user_id |-> PyNone,
       profile_data |-> [user_id |-> "u2", name |-> Bob,
                         project_list |-> <<ProjNoId, ProjB>>]],
      [user_id |-> PyNone,
       profile_data |-> [interests |-> <<"z">>, project_list |-> <<>>]],
      [user_id |-> "u1", profile_data |-> [skills |-> <<"s">>]] }

ProjectCalls ==
    { [user_id |-> "u1", projects_list |-> <<ProjA>>],
      [user_id |-> "u1", projects_list |-> <<>>],
      [user_id |-> "u2", projects_list |-> <<ProjNoId, ProjB>>] }

ConversationCalls ==
    { [message |-> <<"h", "i">>, response |-> <<"y", "o">>, visitor_id |-> "v1",
       message_id |-> "m1", user_id |-> "u1", timestamp |-> "t1"],
      [message |-> <<"h", "i">>, response |-> <<"y", "o">>, visitor_id |-> "v1",
       message_id |-> PyNone, user_id |-> PyNone, timestamp |-> "t1"],
      [message |-> <<"o", "k">>, response |-> <<"y", "o">>, visitor_id |-> "v2",
       message_id |-> "m1", user_id |-> PyNone, timestamp |-> "t2"] }

Owners == {"u1", "u2", "default"}

-----------------------------------------------------------------------------
(* Calls in flight *)

NoArgs == [op |-> "none"]
NoLocals == [uid |-> PyNone, cleared |-> TRUE, deleted |-> TRUE, errs |-> {}]
NoRet == [op |-> "none"]
NoProfile == [done |-> FALSE, gen |-> 0]

Idle(p) == pc[p] = "idle"

\* the call of p ends: it returns `value`, or raises `value` to its caller
Finish(p, raised, value, loc) ==
    /\ pc' = [pc EXCEPT ![p] = "idle"]
    /\ ret' = [ret EXCEPT ![p] =
                  [op |-> args[p].op, args |-> args[p], raised |-> raised,
                   value |-> value, loc |-> loc]]
    /\ lastProfile' =
          IF args[p].op = "profile" /\ loc.uid # PyNone
          THEN [lastProfile EXCEPT ![loc.uid] =
                   [done |-> TRUE, profile_data |-> args[p].profile_data,
                    value |-> value, cleared |-> loc.cleared,
                    gen |-> IF value THEN Min(@.gen + 1, 2) ELSE @.gen,
                    prev |-> IF @.done /\ @.value THEN @.profile_data ELSE <<>>]]
          ELSE lastProfile
    /\ args' = [args EXCEPT ![p] = NoArgs]
    /\ locals' = [locals EXCEPT ![p] = NoLocals]

Return(p, value, loc) == Finish(p, FALSE, value, loc)

Goto(p, label, loc) ==
    /\ pc' = [pc EXCEPT ![p] = label]
    /\ locals' = [locals EXCEPT ![p] = loc]
    /\ UNCHANGED <<args, ret, lastProfile>>

Err(loc, e) == [loc EXCEPT !.errs = @ \cup {e}]

-----------------------------------------------------------------------------
(* add_profile_to_vector_db *)

CallProfile(p) ==
    /\ Idle(p) /\ nops < MaxOps
    /\ \E c \in ProfileCalls :
          args' = [args EXCEPT ![p] =
                     [op |-> "profile", user_id |-> c.user_id,
                      profile_data |-> c.profile_data]]
    /\ pc' = [pc EXCEPT ![p] = "P_getcoll"]
    /\ nops' = nops + 1
    /\ UNCHANGED <<corpus, addMode, locals, lastProfile>>
    /\ ret' = [ret EXCEPT ![p] = NoRet]

\* get_or_create_collection, then the effective user id
ProfileGetCollection(p) ==
    /\ pc[p] = "P_getcoll"
    /\ \/ Goto(p, "P_delete",
                [locals[p] EXCEPT
                    !.uid = EffectiveUserId(args[p].profile_data, args[p].user_id)])
       \/ Return(p, FALSE, Err(locals[p], "getcoll"))
    /\ UNCHANGED <<corpus, addMode, nops>>

\* collection.delete of the owner's profile documents; a failure is swallowed
ProfileDelete(p) ==
    /\ pc[p] = "P_delete"
    /\ \/ /\ corpus' = DeleteCategoryOwner(corpus, "profile", locals[p].uid)
          /\ Goto(p, "P_add", locals[p])
       \/ /\ UNCHANGED corpus
          /\ Goto(p, "P_add", [locals[p] EXCEPT !.cleared = FALSE])
    /\ UNCHANGED <<addMode, nops>>

\* where add_projects_to_vector_db starts for this list: "if not
\* projects_list: return True", which ends the profile ingestion with True too
AfterProfileAdd(p, loc) ==
    IF ProjectListOf(args[p].profile_data) = <<>>
    THEN Return(p, TRUE, loc)
    ELSE Goto(p, "J_getcoll", loc)

\* "if documents: collection.add(...)", then the call of add_projects_to_vector_db
ProfileAdd(p) ==
    /\ pc[p] = "P_add"
    /\ LET documents == ProfileDocs(args[p].profile_data, locals[p].uid)
       IN  \/ /\ documents = <<>> \/ ~AddRaises(corpus, documents, addMode)
              /\ corpus' = IF documents = <<>> THEN corpus ELSE AddDocs(corpus, documents)
              /\ AfterProfileAdd(p, locals[p])
           \/ /\ documents # <<>>
              /\ UNCHANGED corpus
              /\ Return(p, FALSE, Err(locals[p], "add"))
    /\ UNCHANGED <<addMode, nops>>

-----------------------------------------------------------------------------
(* add_projects_to_vector_db, called directly or by the profile ingestion *)

ProjectsArg(p) ==
    IF args[p].op = "profile" THEN ProjectListOf(args[p].profile_data)
    ELSE args[p].projects_list

\* add_projects_to_vector_db returns `value`: to its caller when called
\* directly; the profile ingestion drops the value and returns True
ProjectsReturn(p, value, loc) ==
    IF args[p].op = "profile" THEN Return(p, TRUE, loc) ELSE Return(p, value, loc)

CallProjects(p) ==
    /\ Idle(p) /\ nops < MaxOps
    /\ \E c \in ProjectCalls :
          /\ args' = [args EXCEPT ![p] =
                        [op |-> "projects", user_id |-> c.user_id,
                         projects_list |-> c.projects_list]]
          /\ locals' = [locals EXCEPT ![p] = [NoLocals EXCEPT !.uid = c.user_id]]
    /\ pc' = [pc EXCEPT ![p] = "J_entry"]
    /\ nops' = nops + 1
    /\ UNCHANGED <<corpus, addMode, lastProfile>>
    /\ ret' = [ret EXCEPT ![p] = NoRet]

\* "if not projects_list: return True"
ProjectsEntry(p) ==
    /\ pc[p] = "J_entry"
    /\ IF ProjectsArg(p) = <<>>
       THEN Return(p, TRUE, locals[p])
       ELSE Goto(p, "J_getcoll", locals[p])
    /\ UNCHANGED <<corpus, addMode, nops>>

ProjectsGetCollection(p) ==
    /\ pc[p] = "J_getcoll"
    /\ \/ Goto(p, "J_delete", locals[p])
       \/ ProjectsReturn(p, FALSE, Err(locals[p], "proj_getcoll"))
    /\ UNCHANGED <<corpus, addMode, nops>>

\* collection.delete of every project document; a failure is swallowed
ProjectsDelete(p) ==
    /\ pc[p] = "J_delete"
    /\ \/ /\ corpus' = DeleteCategory(corpus, "project")
          /\ Goto(p, "J_add", locals[p])
       \/ /\ UNCHANGED corpus
          /\ Goto(p, "J_add", [locals[p] EXCEPT !.deleted = FALSE])
    /\ UNCHANGED <<addMode, nops>>

\* the loop over the projects, then "if documents: collection.add(...)"
ProjectsAdd(p) ==
    /\ pc[p] = "J_add"
    /\ LET documents == ProjectDocs(ProjectsArg(p), locals[p].uid)
       IN  \/ /\ documents = <<>> \/ ~AddRaises(corpus, documents, addMode)
              /\ corpus' = IF documents = <<>> THEN corpus ELSE AddDocs(corpus, documents)
              /\ ProjectsReturn(p, TRUE, locals[p])
           \/ /\ documents # <<>>
              /\ UNCHANGED corpus
              /\ ProjectsReturn(p, FALSE, Err(locals[p], "proj_add"))
    /\ UNCHANGED <<addMode, nops>>

-----------------------------------------------------------------------------
(* add_conversation_to_vector_db *)

CallConversation(p) ==
    /\ Idle(p) /\ nops < MaxOps
    /\ \E c \in ConversationCalls :
          args' = [args EXCEPT ![p] =
                     [op |-> "conversation", message |-> c.message,
                      response |-> c.response, visitor_id |-> c.visitor_id,
                      message_id |-> c.message_id, user_id |-> c.user_id,
                      timestamp |-> c.timestamp, uuid |-> Uuid(nops)]]
    /\ pc' = [pc EXCEPT ![p] = "V_getcoll"]
    /\ nops' = nops + 1
    /\ UNCHANGED <<corpus, addMode, locals, lastProfile>>
    /\ ret' = [ret EXCEPT ![p] = NoRet]

ConversationGetCollection(p) ==
    /\ pc[p] = "V_getcoll"
    /\ \/ Goto(p, "V_add", locals[p])
       \/ Return(p, FALSE, Err(locals[p], "getcoll"))
    /\ UNCHANGED <<corpus, addMode, nops>>

ConversationAdd(p) ==
    /\ pc[p] = "V_add"
    /\ LET a == args[p]
           message_id == IF TruthyId(a.message_id) THEN a.message_id ELSE a.uuid
           documents == <<ConversationDoc(a.message, a.response, a.visitor_id,
                                          message_id, a.user_id, a.timestamp)>>
       IN  \/ /\ ~AddRaises(corpus, documents, addMode)
              /\ corpus' = AddDocs(corpus, documents)
              /\ Return(p, TRUE, locals[p])
           \/ /\ UNCHANGED corpus
              /\ Return(p, FALSE, Err(locals[p], "add"))
    /\ UNCHANGED <<addMode, nops>>

-----------------------------------------------------------------------------
(* query_vector_db *)

EmptyResult == [documents |-> <<>>, metadatas |-> <<>>, distances |-> <<>>]

\* a metadata entry that is None instead of a mapping
NoneMeta == [none |-> TRUE]
IsMapping(meta) == "category" \in DOMAIN meta

QueryLocals ==
    [results |-> EmptyResult,   \* results["documents"][0], ["metadatas"][0], ["distances"][0]
     top |-> <<>>,              \* the stored documents the first query matched, in order
     calls |-> <<>>,            \* the collection.query calls issued so far
     merged |-> EmptyResult,    \* documents, metadatas, distances of lines 422-424
     search_results |-> EmptyResult,  \* the chat route's search_results
     errs |-> {}]

QueryCalls ==
    [query : {<<"q">>}, n_results : {1, 3}, user_id : {PyNone, "u1"},
     visitor_id : {PyNone, "v1"}, include_conversation : BOOLEAN]

\* the orderings of k distinct elements of S
RECURSIVE Orderings(_, _)
Orderings(S, k) ==
    IF k = 0 \/ S = {} THEN {<<>>}
    ELSE UNION {{<<d>> \o t : t \in Orderings(S \ {d}, k - 1)} : d \in S}

Take(s, k) == SubSeq(s, 1, Min(k, Len(s)))

IndexOf(s, x) == CHOOSE i \in 1..Len(s) : s[i] = x

\* collection.query(query_texts=[query], n_results=n): the n nearest stored
\* documents, nearest first; which ones they are is up to the embeddings
FirstMatches(c, n) == Orderings(c, Min(n, Cardinality(c)))

\* the where clause of the conversation query
ConversationOf(d, visitor_id) ==
    d.meta.category = "conversation" /\ GetId(d.meta, "visitor_id") = visitor_id

\* collection.query(..., n_results=3, where=conversation_filter): the nearest
\* of the visitor's conversation documents; those the first query matched are
\* nearer than the others, and in the same order
SecondMatches(c, top, visitor_id) ==
    LET inTop == SelectSeq(top, LAMBDA d : ConversationOf(d, visitor_id))
        rest == {d \in c : ConversationOf(d, visitor_id)} \ Range(top)
    IN  {Take(inTop \o t, 3) : t \in Orderings(rest, Cardinality(rest))}

\* the distance the service reports for a match: its place in the ranking
\* of the whole corpus for this query text
DistanceOf(d, top, matches) ==
    IF d \in Range(top) THEN IndexOf(top, d)
    ELSE Len(top) + IndexOf(SelectSeq(matches, LAMBDA e : e \notin Range(top)), d)

\* the lists of a query response
ResponseOf(matches, top) ==
    [documents |-> [i \in 1..Len(matches) |-> matches[i].text],
     metadatas |-> [i \in 1..Len(matches) |-> matches[i].meta],
     distances |-> [i \in 1..Len(matches) |-> DistanceOf(matches[i], top, matches)]]

\* a handler that lets the exception reach the caller
QueryFail_Propagates(p, loc, e) == Finish(p, TRUE, "Exception", Err(loc, e))

\* query_vector_db returns `value`: to its caller when called directly, to
\* the chat route (line 40 of routes/chatbot.py) when it was called from there
QueryReturn(p, value, loc) ==
    IF args[p].op = "chat"
    THEN Goto(p, "C_profile", [loc EXCEPT !.search_results = value])
    ELSE Return(p, value, loc)

\* the "except Exception" of query_vector_db: the empty result set
QueryFail(p, loc, e) == QueryReturn(p, EmptyResult, Err(loc, e))

\* a test that never takes the early return
IsEmptyCollection_Never(collection_count) == collection_count < 0

\* "if collection_count == 0"
IsEmptyCollection(collection_count) == collection_count = 0

CallQuery(p) ==
    /\ Idle(p) /\ nops < MaxOps
    /\ \E c \in QueryCalls :
          args' = [args EXCEPT ![p] =
                     [op |-> "query", query |-> c.query, n_results |-> c.n_results,
                      user_id |-> c.user_id, visitor_id |-> c.visitor_id,
                      include_conversation |-> c.include_conversation]]
    /\ locals' = [locals EXCEPT ![p] = QueryLocals]
    /\ pc' = [pc EXCEPT ![p] = "Q_getcoll"]
    /\ ret' = [ret EXCEPT ![p] = NoRet]
    /\ nops' = nops + 1
    /\ UNCHANGED <<corpus, addMode, lastProfile>>

QueryGetCollection(p) ==
    /\ pc[p] = "Q_getcoll"
    /\ \/ Goto(p, "Q_count", locals[p])
       \/ QueryFail(p, locals[p], "getcoll")
    /\ UNCHANGED <<corpus, addMode, nops>>

\* collection.count() and the early return on an empty collection
QueryCount(p) ==
    /\ pc[p] = "Q_count"
    /\ \/ IF IsEmptyCollection(Cardinality(corpus))
          THEN QueryReturn(p, EmptyResult, locals[p])
          ELSE Goto(p, "Q_query1", locals[p])
       \/ QueryFail(p, locals[p], "count")
    /\ UNCHANGED <<corpus, addMode, nops>>

\* "if visitor_id and include_conversation"
WantsConversation(a) == TruthyId(a.visitor_id) /\ a.include_conversation

\* the first, unscoped collection.query
QueryFirst(p) ==
    /\ pc[p] = "Q_query1"
    /\ LET loc == [locals[p] EXCEPT !.calls = Append(@, "query")]
           after == IF WantsConversation(args[p]) THEN "Q_query2" ELSE "Q_filter"
       IN  \/ \E top \in FirstMatches(corpus, args[p].n_results) :
                 LET r == ResponseOf(top, top)
                 IN  \/ Goto(p, after, [loc EXCEPT !.results = r, !.top = top])
                     \* a response with a None in place of a metadata mapping
                     \/ \E i \in 1..Len(top) :
                          Goto(p, after,
                               [loc EXCEPT !.top = top,
                                   !.results = [r EXCEPT !.metadatas[i] = NoneMeta]])
           \/ QueryFail(p, loc, "query1")
    /\ UNCHANGED <<corpus, addMode, nops>>

\* results after the loop of lines 413-416 has appended the first k matches
\* of the conversation response in full and, of match k + 1, what `part` says
Appended(results, conv, k, part) ==
    [documents |-> results.documents \o Take(conv.documents, k + (IF part = "none" THEN 0 ELSE 1)),
     metadatas |-> results.metadatas \o Take(conv.metadatas, k + (IF part = "both" THEN 1 ELSE 0)),
     distances |-> results.distances \o Take(conv.distances, k)]

\* the conversation-scoped collection.query and the appending of its matches;
\* whatever it raises is caught at line 417
QuerySecond(p) ==
    /\ pc[p] = "Q_query2"
    /\ LET loc == [locals[p] EXCEPT !.calls = Append(@, "query_where")]
       IN  \/ \E matches \in SecondMatches(corpus, loc.top, args[p].visitor_id) :
                 LET conv == ResponseOf(matches, loc.top)
                 IN  \/ Goto(p, "Q_filter",
                             [loc EXCEPT !.results =
                                 Appended(@, conv, Len(matches), "none")])
                     \* the response lacks the metadata or the distance of a
                     \* match: the loop raises partway through
                     \/ \E k \in 0..(Len(matches) - 1), part \in {"document", "both"} :
                          Goto(p, "Q_filter",
                               [Err(loc, "append") EXCEPT !.results =
                                   Appended(@, conv, k, part)])
           \/ Goto(p, "Q_filter", Err(loc, "query2"))
    /\ UNCHANGED <<corpus, addMode, nops>>

\* a filter that applies the owner test to conversation entries too
KeepEntry_OwnerOnly(meta, user_id) == GetId(meta, "user_id") = user_id

\* lines 437-449: is the entry with this metadata kept for this owner
KeepEntry(meta, user_id) ==
    \/ meta.category = "conversation"
    \/ GetId(meta, "user_id") = user_id

\* the loop of lines 433-449 from index i (1-based) on; acc holds the
\* filtered lists so far; [ok |-> FALSE] when an iteration raises
RECURSIVE FilterLoop(_, _, _, _)
FilterLoop(i, m, user_id, acc) ==
    IF i > Len(m.metadatas) THEN [ok |-> TRUE, lists |-> acc]
    ELSE LET meta == m.metadatas[i]
         IN  IF ~IsMapping(meta) THEN [ok |-> FALSE, lists |-> acc]
             ELSE IF KeepEntry(meta, user_id)
             THEN IF i > Len(m.documents) \/ i > Len(m.distances)
                  THEN [ok |-> FALSE, lists |-> acc]
                  ELSE FilterLoop(i + 1, m, user_id,
                          [documents |-> Append(acc.documents, m.documents[i]),
                           metadatas |-> Append(acc.metadatas, meta),
                           distances |-> Append(acc.distances, m.distances[i])])
             ELSE FilterLoop(i + 1, m, user_id, acc)

\* lines 421-466: extract the lists, filter by owner when one is given, return
QueryFilter(p) ==
    /\ pc[p] = "Q_filter"
    /\ LET loc == [locals[p] EXCEPT !.merged = locals[p].results]
       IN  IF TruthyId(args[p].user_id)
           THEN LET f == FilterLoop(1, loc.merged, args[p].user_id, EmptyResult)
                IN  IF f.ok THEN QueryReturn(p, f.lists, loc)
                    ELSE QueryFail(p, loc, "filter")
           ELSE QueryReturn(p, loc.merged, loc)
    /\ UNCHANGED <<corpus, addMode, nops>>

-----------------------------------------------------------------------------
(* generate_ai_response: the prompt context *)

NoInformation ==
    <<"N", "o", " ", "s", "p", "e", "c", "i", "f", "i", "c", " ", "i", "n",
      "f", "o", "r", "m", "a", "t", "i", "o", "n", " ", "a", "v", "a", "i",
      "l", "a", "b", "l", "e", ".", " ", "P", "l", "e", "a", "s", "e", " ",
      "p", "r", "o", "v", "i", "d", "e", " ", "a", " ", "g", "e", "n", "e",
      "r", "a", "l", " ", "r", "e", "s", "p", "o", "n", "s", "e", ".">>

NotProvided ==
    <<"N", "o", "t", " ", "p", "r", "o", "v", "i", "d", "e", "d">>

ThePerson ==
    <<"t", "h", "e", " ", "p", "e", "r", "s", "o", "n">>

IAm == <<"I", " ", "a", "m", " ">>

LowerCase ==
    <<"a", "b", "c", "d", "e", "f", "g", "h", "i", "j", "k", "l", "m", "n",
      "o", "p", "q", "r", "s", "t", "u", "v", "w", "x", "y", "z">>
UpperCase ==
    <<"A", "B", "C", "D", "E", "F", "G", "H", "I", "J", "K", "L", "M", "N",
      "O", "P", "Q", "R", "S", "T", "U", "V", "W", "X", "Y", "Z">>

\* the text of an identifier the documents' metadata can hold as subcategory
TextOf(id) ==
    CASE id = "name" -> <<"n", "a", "m", "e">>
      [] id = "location" -> <<"l", "o", "c", "a", "t", "i", "o", "n">>
      [] id = "bio" -> <<"b", "i", "o">>
      [] id = "skills" -> <<"s", "k", "i", "l", "l", "s">>
      [] id = "experience" -> <<"e", "x", "p", "e", "r", "i", "e", "n", "c", "e">>
      [] id = "projects" -> <<"p", "r", "o", "j", "e", "c", "t", "s">>
      [] id = "interests" -> <<"i", "n", "t", "e", "r", "e", "s", "t", "s">>
      [] id = "title" -> <<"t", "i", "t", "l", "e">>
      [] id = "description" ->
            <<"d", "e", "s", "c", "r", "i", "p", "t", "i", "o", "n">>
      [] id = "details" -> <<"d", "e", "t", "a", "i", "l", "s">>
      [] id = "content" -> <<"c", "o", "n", "t", "e", "n", "t">>
      [] id = "exchange" -> <<"e", "x", "c", "h", "a", "n", "g", "e">>

\* str.upper()
Upper(s) ==
    [i \in 1..Len(s) |->
        IF \E k \in 1..Len(LowerCase) : LowerCase[k] = s[i]
        THEN UpperCase[CHOOSE k \in 1..Len(LowerCase) : LowerCase[k] = s[i]]
        ELSE s[i]]

\* lines 483-492.  search_results holds the lists either as query_vector_db
\* returns them (shape "flat": documents is a list of texts, metadatas a list
\* of mappings) or as collection.query returns them (shape "batched": one
\* inner list per query text).  search_results["documents"][0] is the first
\* text in the one shape and the list of texts in the other.
\* With a non-empty first text, the loop runs over its characters and
\* search_results["metadatas"][0][i] subscripts a mapping (or None, or an
\* empty list) with an integer: KeyError (or TypeError, or IndexError).
RelevantContext(search_results) ==
    IF search_results.documents = <<>> \/ Len(search_results.documents[1]) = 0
    THEN [raises |-> "none", context |-> NoInformation]
    ELSE IF search_results.shape = "flat"
    THEN [raises |-> IF search_results.metadatas = <<>> THEN "IndexError"
                     ELSE IF ~IsMapping(search_results.metadatas[1]) THEN "TypeError"
                     ELSE "KeyError",
          context |-> <<>>]
    ELSE LET docs == search_results.documents[1]
             metas == IF search_results.metadatas = <<>> THEN <<>>
                      ELSE search_results.metadatas[1]
         IN  IF Len(metas) < Len(docs) THEN [raises |-> "IndexError", context |-> <<>>]
             ELSE IF \E i \in 1..Len(docs) : ~IsMapping(metas[i])
             THEN [raises |-> "TypeError", context |-> <<>>]
             ELSE IF \E i \in 1..Len(docs) : "subcategory" \notin DOMAIN metas[i]
             THEN [raises |-> "KeyError", context |-> <<>>]
             ELSE [raises |-> "none",
                   context |-> Flatten([i \in 1..Len(docs) |->
                       Upper(TextOf(metas[i].subcategory)) \o <<":", " ">>
                           \o docs[i] \o <<"\n", "\n">>])]

IsSpace(ch) == ch \in {" ", "\n", "\t", "\r"}

\* str.strip()
RECURSIVE Strip(_)
Strip(s) ==
    IF s = <<>> THEN s
    ELSE IF IsSpace(Head(s)) THEN Strip(Tail(s))
    ELSE IF IsSpace(s[Len(s)]) THEN Strip(SubSeq(s, 1, Len(s) - 1))
    ELSE s

\* the first index at which pat occurs in s, 0 when it does not
Find(s, pat) ==
    LET at == {i \in 1..(Len(s) - Len(pat) + 1) : SubSeq(s, i, i + Len(pat) - 1) = pat}
    IN  IF at = {} THEN 0 ELSE CHOOSE i \in at : \A j \in at : i <= j

\* s.split(sep)[0]
BeforeFirst(s, sep) ==
    IF Find(s, sep) = 0 THEN s ELSE SubSeq(s, 1, Find(s, sep) - 1)

\* s.split(sep)[1], for an s that holds sep
AfterFirst(s, sep) ==
    BeforeFirst(SubSeq(s, Find(s, sep) + Len(sep), Len(s)), sep)

\* get(field) of a profile record, '' when the key is absent
FieldOf(profile_data, f) == IF f \in DOMAIN profile_data THEN profile_data[f] ELSE <<>>

\* lines 494-523: user_name
PersonaName(profile_data) ==
    IF DOMAIN profile_data = {} THEN ThePerson
    ELSE IF Strip(FieldOf(profile_data, "name")) # <<>>
    THEN Strip(profile_data["name"])
    ELSE LET bio == FieldOf(profile_data, "bio")
             name_part == IF Find(bio, IAm) # 0
                          THEN BeforeFirst(AfterFirst(bio, IAm), <<" ">>)
                          ELSE <<>>
         IN  IF Len(name_part) > 2 THEN name_part ELSE ThePerson

\* the label of a profile field in the profile block
RECURSIVE ProfileLines(_, _)
ProfileLines(profile_data, i) ==
    IF i > Len(ProfileFields) THEN <<>>
    ELSE Upper(TextOf(ProfileFields[i])) \o <<":", " ">>
           \o (IF ProfileFields[i] \in DOMAIN profile_data
               THEN profile_data[ProfileFields[i]] ELSE NotProvided)
           \o <<"\n">> \o ProfileLines(profile_data, i + 1)

\* lines 526-545: profile_context; it stays empty without a profile
ProfileContext(profile_data) ==
    IF DOMAIN profile_data = {} THEN <<>>
    ELSE <<"\n">> \o ProfileLines(profile_data, 1)
           \o <<" ", " ", " ", " ", " ", " ", " ", " ">>

PreviousConversation ==
    <<"P", "R", "E", "V", "I", "O", "U", "S", " ", "C", "O", "N", "V", "E",
      "R", "S", "A", "T", "I", "O", "N", ":", "\n">>
VisitorSays == <<"V", "i", "s", "i", "t", "o", "r", ":", " ">>
YouSay == <<"Y", "o", "u", ":", " ">>

\* lines 548-559: conversation_context
ConversationContext(chat_history) ==
    IF chat_history = <<>> THEN <<>>
    ELSE PreviousConversation
           \o Flatten([i \in 1..Len(chat_history) |->
                 IF chat_history[i].sender = "user"
                 THEN VisitorSays \o chat_history[i].message \o <<"\n">>
                 ELSE YouSay \o chat_history[i].response \o <<"\n">>])
           \o <<"\n">>

-----------------------------------------------------------------------------
(* generate_ai_response: the language-model call and its handlers *)

\* the exception classes of the openai client (v1) and their base classes
BaseOf(cls) ==
    CASE cls = "RateLimitError" -> "APIStatusError"
      [] cls = "InternalServerError" -> "APIStatusError"
      [] cls = "APIStatusError" -> "APIError"
      [] cls = "APITimeoutError" -> "APIConnectionError"
      [] cls = "APIConnectionError" -> "APIError"
      [] cls = "APIError" -> "OpenAIError"
      [] cls = "OpenAIError" -> "Exception"
      [] cls = "AttributeError" -> "Exception"
      [] cls = "Exception" -> "BaseException"

\* isinstance(<an exception of class cls>, handler_cls)
RECURSIVE IsInstance(_, _)
IsInstance(cls, handler_cls) ==
    \/ cls = handler_cls
    \/ cls # "BaseException" /\ IsInstance(BaseOf(cls), handler_cls)

ApiErrorApology ==
    "I'm sorry, I couldn't generate a response at the moment due to an API error. Please try again later."
ConnectionApology ==
    "I'm sorry, I couldn't connect to the response service. Please check your internet connection and try again."
RateLimitApology ==
    "I'm sorry, the service is currently experiencing high demand. Please try again in a few moments."
UnclassifiedApology ==
    "I'm sorry, I couldn't generate a response at the moment. Please try again later."

\* the except clauses of lines 601-612, in source order
Handlers ==
    << [cls |-> "APIError", apology |-> ApiErrorApology],
       [cls |-> "APIConnectionError", apology |-> ConnectionApology],
       [cls |-> "RateLimitError", apology |-> RateLimitApology],
       [cls |-> "Exception", apology |-> UnclassifiedApology] >>

\* what the try statement returns for an exception of class cls: the apology
\* of the first clause that matches
Handle(cls) ==
    LET k == CHOOSE i \in 1..Len(Handlers) :
                 /\ IsInstance(cls, Handlers[i].cls)
                 /\ \A j \in 1..(i - 1) : ~IsInstance(cls, Handlers[j].cls)
    IN  Handlers[k].apology

\* what openai.chat.completions.create and response.choices[0].message.content
\* can do: a text, a None content, or an exception
LLMOutcomes ==
    { [raises |-> "none", content |-> "I build things."],
      [raises |-> "none", content |-> PyNone],
      [raises |-> "InternalServerError", content |-> PyNone],
      [raises |-> "APITimeoutError", content |-> PyNone],
      [raises |-> "APIConnectionError", content |-> PyNone],
      [raises |-> "RateLimitError", content |-> PyNone],
      [raises |-> "AttributeError", content |-> PyNone] }

-----------------------------------------------------------------------------
(* generate_ai_response, called directly or by the chat route *)

NoPrompt == [user_name |-> <<>>, profile_context |-> <<>>,
             conversation_context |-> <<>>, context |-> <<>>]
NoGenerated == [called |-> FALSE]

GenLocals(search_results, profile_data, chat_history) ==
    [search_results |-> search_results, profile_data |-> profile_data,
     chat_history |-> chat_history,
     prompt |-> NoPrompt,       \* what goes into system_prompt
     llm |-> "none",            \* what the language-model call raised
     generated |-> NoGenerated, \* the chat route's ai_response
     errs |-> {}]

\* a result set in the shape query_vector_db returns it
Flat(r) ==
    [shape |-> "flat", documents |-> r.documents, metadatas |-> r.metadatas,
     distances |-> r.distances]

\* a result set in the shape collection.query returns it
Batched(r) ==
    [shape |-> "batched", documents |-> <<r.documents>>,
     metadatas |-> <<r.metadatas>>, distances |-> <<r.distances>>]

OneMatch ==
    [documents |-> <<Ada>>,
     metadatas |-> <<[category |-> "profile", subcategory |-> "name", user_id |-> "u1"]>>,
     distances |-> <<1>>]

BioGrace ==
    <<"I", " ", "a", "m", " ", "G", "r", "a", "c", "e", ",", " ", "a", " ",
      "p", "i", "o", "n", "e", "e", "r">>

GenerateProfiles ==
    { <<>>,
      [name |-> Ada, bio |-> BioAda],
      [bio |-> BioGrace],
      [bio |-> <<"I", " ", "a", "m", " ", "a", " ", "d", "e", "v">>, location |-> <<"L">>],
      [name |-> <<" ">>, bio |-> <<"h", "i">>, skills |-> <<>>] }

GenerateCalls ==
    [query : {<<"q">>},
     search_results : {Flat(EmptyResult), Flat(OneMatch),
                       Batched(EmptyResult), Batched(OneMatch)},
     profile_data : GenerateProfiles,
     chat_history : { <<>>,
                      << [sender |-> "user", message |-> <<"h", "i">>, response |-> <<>>],
                         [sender |-> "bot", message |-> <<>>, response |-> <<"y", "o">>] >> }]

\* generate_ai_response returns `value` to its caller
GenerateReturn(p, value, loc) ==
    IF args[p].op = "chat"
    THEN Goto(p, "C_respond",
              [loc EXCEPT !.generated = [called |-> TRUE, raised |-> FALSE, value |-> value]])
    ELSE Return(p, value, loc)

\* generate_ai_response raises `exc` to its caller
GenerateRaise(p, exc, loc) ==
    IF args[p].op = "chat"
    THEN Goto(p, "C_except",
              [loc EXCEPT !.generated = [called |-> TRUE, raised |-> TRUE, value |-> exc]])
    ELSE Finish(p, TRUE, exc, loc)

CallGenerate(p) ==
    /\ Idle(p) /\ nops < MaxOps
    /\ \E c \in GenerateCalls :
          /\ args' = [args EXCEPT ![p] = [op |-> "generate", query |-> c.query]]
          /\ locals' = [locals EXCEPT ![p] =
                          GenLocals(c.search_results, c.profile_data, c.chat_history)]
    /\ pc' = [pc EXCEPT ![p] = "G_prompt"]
    /\ ret' = [ret EXCEPT ![p] = NoRet]
    /\ nops' = nops + 1
    /\ UNCHANGED <<corpus, addMode, lastProfile>>

\* lines 482-586: the context blocks and the system prompt; nothing here is
\* inside a try
GeneratePrompt(p) ==
    /\ pc[p] = "G_prompt"
    /\ LET loc == locals[p]
           rc == RelevantContext(loc.search_results)
       IN  IF rc.raises # "none"
           THEN GenerateRaise(p, rc.raises, Err(loc, rc.raises))
           ELSE Goto(p, "G_llm",
                     [loc EXCEPT !.prompt =
                         [user_name |-> PersonaName(loc.profile_data),
                          profile_context |-> ProfileContext(loc.profile_data),
                          conversation_context |-> ConversationContext(loc.chat_history),
                          context |-> rc.context]])
    /\ UNCHANGED <<corpus, addMode, nops>>

\* lines 589-612: the chat completion request and the except clauses
GenerateComplete(p) ==
    /\ pc[p] = "G_llm"
    /\ \E o \in LLMOutcomes :
          LET loc == [locals[p] EXCEPT !.llm = o.raises]
          IN  IF o.raises = "none"
              THEN GenerateReturn(p, o.content, loc)
              ELSE GenerateReturn(p, Handle(o.raises), loc)
    /\ UNCHANGED <<corpus, addMode, nops>>

-----------------------------------------------------------------------------
(* routes/chatbot.py: chat *)

NoMessageResponse == "I didn't receive a message. Could you please try again?"
FallbackResponse ==
    "I apologize, but I couldn't formulate a proper response. Could we try a different question?"

\* get_profile_data(user_id=target_user_id): a profile, or none
StoredProfiles == {<<>>, [name |-> Ada, bio |-> BioAda, id |-> "1"]}

\* "not ai_response or ai_response.strip() == ''"
BlankResponse(ai_response) == ai_response \in {PyNone, "", " "}

\* query_vector_db(message, user_id=target_user_id): the other parameters
\* keep their defaults
CallChat(p) ==
    /\ Idle(p) /\ nops < MaxOps
    /\ \E message \in {<<"q">>, <<" ">>}, target_user_id \in {PyNone, "u1"} :
          args' = [args EXCEPT ![p] =
                     [op |-> "chat", query |-> message, n_results |-> 3,
                      user_id |-> target_user_id, visitor_id |-> PyNone,
                      include_conversation |-> TRUE]]
    /\ locals' = [locals EXCEPT ![p] = QueryLocals]
    /\ pc' = [pc EXCEPT ![p] = "C_validate"]
    /\ ret' = [ret EXCEPT ![p] = NoRet]
    /\ nops' = nops + 1
    /\ UNCHANGED <<corpus, addMode, lastProfile>>

\* lines 31-36: an empty message is answered at once
ChatValidate(p) ==
    /\ pc[p] = "C_validate"
    /\ IF Strip(args[p].query) = <<>>
       THEN Return(p, NoMessageResponse, locals[p])
       ELSE Goto(p, "Q_getcoll", locals[p])
    /\ UNCHANGED <<corpus, addMode, nops>>

\* lines 45-60: get_profile_data, then the call of generate_ai_response with
\* the search results as query_vector_db returned them
ChatGetProfile(p) ==
    /\ pc[p] = "C_profile"
    /\ \/ \E profile_data \in StoredProfiles :
            Goto(p, "G_prompt",
                 GenLocals(Flat(locals[p].search_results), profile_data, <<>>))
       \/ Goto(p, "C_except",
               GenLocals(Flat(locals[p].search_results), <<>>, <<>>))
    /\ UNCHANGED <<corpus, addMode, nops>>

\* lines 62-86: the fallback for a blank answer, log_chat_message, the response
ChatRespond(p) ==
    /\ pc[p] = "C_respond"
    /\ \/ Return(p, IF BlankResponse(locals[p].generated.value)
                    THEN FallbackResponse ELSE locals[p].generated.value,
                 locals[p])
       \/ Goto(p, "C_except", locals[p])
    /\ UNCHANGED <<corpus, addMode, nops>>

\* lines 88-108: the route's handler raises HTTPException(500)
ChatExcept(p) ==
    /\ pc[p] = "C_except"
    /\ Finish(p, TRUE, "HTTPException", locals[p])
    /\ UNCHANGED <<corpus, addMode, nops>>

-----------------------------------------------------------------------------
(* Specifications *)

InitCalls(procs) ==
    /\ corpus = {}
    /\ addMode \in {"ignore", "raise"}
    /\ pc = [p \in procs |-> "idle"]
    /\ args = [p \in procs |-> NoArgs]
    /\ locals = [p \in procs |-> NoLocals]
    /\ ret = [p \in procs |-> NoRet]
    /\ lastProfile = [u \in Owners |-> NoProfile]
    /\ nops = 0

\* One caller at a time: ingestion calls in sequence.
Init == InitCalls({1})

Next ==
    \/ \E p \in DOMAIN pc : CallProfile(p)
    \/ \E p \in DOMAIN pc : ProfileGetCollection(p)
    \/ \E p \in DOMAIN pc : ProfileDelete(p)
    \/ \E p \in DOMAIN pc : ProfileAdd(p)
    \/ \E p \in DOMAIN pc : CallProjects(p)
    \/ \E p \in DOMAIN pc : ProjectsEntry(p)
    \/ \E p \in DOMAIN pc : ProjectsGetCollection(p)
    \/ \E p \in DOMAIN pc : ProjectsDelete(p)
    \/ \E p \in DOMAIN pc : ProjectsAdd(p)
    \/ \E p \in DOMAIN pc : CallConversation(p)
    \/ \E p \in DOMAIN pc : ConversationGetCollection(p)
    \/ \E p \in DOMAIN pc : ConversationAdd(p)

Spec == Init /\ [][Next]_vars

\* Two callers whose profile ingestions for owner u1 overlap: the requests
\* are served concurrently and nothing serialises the steps of two calls.
RaceCalls == {c \in ProfileCalls : c.user_id = "u1"}

CallProfileRace(p) ==
    /\ Idle(p) /\ nops < MaxOps
    /\ \E c \in RaceCalls :
          args' = [args EXCEPT ![p] =
                     [op |-> "profile", user_id |-> c.user_id,
                      profile_data |-> c.profile_data]]
    /\ pc' = [pc EXCEPT ![p] = "P_getcoll"]
    /\ nops' = nops + 1
    /\ UNCHANGED <<corpus, addMode, locals, lastProfile>>
    /\ ret' = [ret EXCEPT ![p] = NoRet]

InitRace == InitCalls({1, 2})

NextRace ==
    \/ \E p \in DOMAIN pc : CallProfileRace(p)
    \/ \E p \in DOMAIN pc : ProfileGetCollection(p)
    \/ \E p \in DOMAIN pc : ProfileDelete(p)
    \/ \E p \in DOMAIN pc : ProfileAdd(p)
    \/ \E p \in DOMAIN pc : ProjectsGetCollection(p)
    \/ \E p \in DOMAIN pc : ProjectsDelete(p)
    \/ \E p \in DOMAIN pc : ProjectsAdd(p)

SpecRace == InitRace /\ [][NextRace]_vars

\* Two callers whose ingestions of every kind overlap, from the corpus that a
\* first call, a conversation ingestion without message id, has left.
InitOverlap ==
    /\ corpus = {ConversationDoc(<<"h", "i">>, <<"y", "o">>, "v1", Uuid(0), PyNone, "t1")}
    /\ addMode \in {"ignore", "raise"}
    /\ pc = [p \in {1, 2} |-> "idle"]
    /\ args = [p \in {1, 2} |-> NoArgs]
    /\ locals = [p \in {1, 2} |-> NoLocals]
    /\ ret = [p \in {1, 2} |-> NoRet]
    /\ lastProfile = [u \in Owners |-> NoProfile]
    /\ nops = 1

SpecOverlap == InitOverlap /\ [][Next]_vars

\* Project ingestion of one project whose content is a long plain text: the
\* lengths around the multiples of the window step, from the threshold up.
ChunkLengths ==
    {n \in ChunkThreshold..MaxTextLen :
        n % (chunk_size - overlap) \in {0, 1, 99, 100, 101, 899}}
ChunkPeriods == {7, 26}

\* a text of n characters that repeats the first m letters
LongText(n, m) == [i \in 1..n |-> LowerCase[(i % m) + 1]]

LongTexts == {LongText(n, m) : n \in ChunkLengths, m \in ChunkPeriods}

CallProjectsLong(p) ==
    /\ Idle(p) /\ nops < MaxChunkCalls
    /\ \E content \in LongTexts :
          args' = [args EXCEPT ![p] =
                     [op |-> "projects", user_id |-> "u1",
                      projects_list |-> <<[id |-> "p1", content |-> content]>>]]
    /\ locals' = [locals EXCEPT ![p] = [NoLocals EXCEPT !.uid = "u1"]]
    /\ pc' = [pc EXCEPT ![p] = "J_entry"]
    /\ nops' = nops + 1
    /\ UNCHANGED <<corpus, addMode, lastProfile>>
    /\ ret' = [ret EXCEPT ![p] = NoRet]

NextChunk ==
    \/ \E p \in DOMAIN pc : CallProjectsLong(p)
    \/ \E p \in DOMAIN pc : ProjectsEntry(p)
    \/ \E p \in DOMAIN pc : ProjectsGetCollection(p)
    \/ \E p \in DOMAIN pc : ProjectsDelete(p)
    \/ \E p \in DOMAIN pc : ProjectsAdd(p)

SpecChunk == Init /\ [][NextChunk]_vars

\* Project ingestion of lists that hold malformed records next to well-formed
\* ones: no id, an empty id, a content that is JSON without an "html" entry,
\* JSON that is no object, or no JSON at all.
ProjEmptyId == [id |-> "", title |-> <<"T", "9">>, content |-> <<"r", "a", "w">>]
ProjNoHtml == [id |-> "p3", title |-> <<"T", "3">>, content |-> LexicalNoHtml]
ProjJsonList == [id |-> "p4", details |-> <<"E", "4">>, content |-> JsonList]
ProjBadJson ==
    [id |-> "p5", description |-> <<"D", "5">>, content |-> <<"{", "h", "t", "m", "l">>,
     category |-> "web"]

RecordLists ==
    { <<ProjNoId, ProjA>>,
      <<ProjA, ProjEmptyId, ProjB>>,
      <<ProjNoHtml, ProjA>>,
      <<ProjJsonList, ProjB>>,
      <<ProjBadJson, ProjNoId, ProjNoHtml>>,
      <<ProjEmptyId>>,
      <<ProjB>> }

CallProjectsRecords(p) ==
    /\ Idle(p) /\ nops < MaxOps
    /\ \E projects_list \in RecordLists, user_id \in {"u1", "u2"} :
          /\ args' = [args EXCEPT ![p] =
                        [op |-> "projects", user_id |-> user_id,
                         projects_list |-> projects_list]]
          /\ locals' = [locals EXCEPT ![p] = [NoLocals EXCEPT !.uid = user_id]]
    /\ pc' = [pc EXCEPT ![p] = "J_entry"]
    /\ nops' = nops + 1
    /\ UNCHANGED <<corpus, addMode, lastProfile>>
    /\ ret' = [ret EXCEPT ![p] = NoRet]

NextRecords ==
    \/ \E p \in DOMAIN pc : CallProjectsRecords(p)
    \/ \E p \in DOMAIN pc : ProjectsEntry(p)
    \/ \E p \in DOMAIN pc : ProjectsGetCollection(p)
    \/ \E p \in DOMAIN pc : ProjectsDelete(p)
    \/ \E p \in DOMAIN pc : ProjectsAdd(p)

SpecRecords == Init /\ [][NextRecords]_vars

\* Retrieval from a corpus that ingestion has left behind: documents of two
\* owners and conversation documents of two visitors.
QueryDocs ==
    { ProfileDoc([name |-> Ada], "name", "u1"),
      ProfileDoc([name |-> Bob], "name", "u2"),
      ProjectFieldDoc(ProjA, "title", ProjA["title"], "u1"),
      ConversationDoc(<<"h", "i">>, <<"y", "o">>, "v1", "m1", "u1", "t1"),
      ConversationDoc(<<"h", "i">>, <<"y", "o">>, "v1", Uuid(0), PyNone, "t1"),
      ConversationDoc(<<"o", "k">>, <<"y", "o">>, "v2", "m2", PyNone, "t2") }

InitQuery ==
    /\ corpus \in {c \in SUBSET QueryDocs : Cardinality(c) <= MaxCorpus}
    /\ addMode = "ignore"
    /\ pc = [p \in {1} |-> "idle"]
    /\ args = [p \in {1} |-> NoArgs]
    /\ locals = [p \in {1} |-> NoLocals]
    /\ ret = [p \in {1} |-> NoRet]
    /\ lastProfile = [u \in Owners |-> NoProfile]
    /\ nops = 0

NextQuery ==
    \/ \E p \in DOMAIN pc : CallQuery(p)
    \/ \E p \in DOMAIN pc : QueryGetCollection(p)
    \/ \E p \in DOMAIN pc : QueryCount(p)
    \/ \E p \in DOMAIN pc : QueryFirst(p)
    \/ \E p \in DOMAIN pc : QuerySecond(p)
    \/ \E p \in DOMAIN pc : QueryFilter(p)

SpecQuery == InitQuery /\ [][NextQuery]_vars

\* Generation, called directly and through the chat route, which hands it
\* what retrieval returned.
NextGenerate ==
    \/ \E p \in DOMAIN pc : CallGenerate(p)
    \/ \E p \in DOMAIN pc : GeneratePrompt(p)
    \/ \E p \in DOMAIN pc : GenerateComplete(p)
    \/ \E p \in DOMAIN pc : CallChat(p)
    \/ \E p \in DOMAIN pc : ChatValidate(p)
    \/ \E p \in DOMAIN pc : QueryGetCollection(p)
    \/ \E p \in DOMAIN pc : QueryCount(p)
    \/ \E p \in DOMAIN pc : QueryFirst(p)
    \/ \E p \in DOMAIN pc : QueryFilter(p)
    \/ \E p \in DOMAIN pc : ChatGetProfile(p)
    \/ \E p \in DOMAIN pc : ChatRespond(p)
    \/ \E p \in DOMAIN pc : ChatExcept(p)

SpecGenerate == InitQuery /\ [][NextGenerate]_vars

-----------------------------------------------------------------------------
(* Claims about sequential ingestion (Spec) *)

\* the stored documents of one category and owner
DocsOf(c, cat, uid) ==
    {d \in c : d.meta.category = cat /\ GetId(d.meta, "user_id") = uid}

\* the profile documents of owner u are exactly those of profile_data:
\* one per non-empty recognised field, with its id and text, no id twice
ExactlyProfile(c, profile_data, u) ==
    LET stored == DocsOf(c, "profile", u)
        fields == {f \in Range(ProfileFields) : Truthy(profile_data, f)}
    IN  /\ Cardinality(stored) = Cardinality(fields)
        /\ \A f \in fields :
              \E d \in stored : /\ d.id = f \o "_" \o u
                                /\ d.text = profile_data[f]
                                /\ d.meta.subcategory = f
        /\ \A d, e \in stored : d.id = e.id => d = e

\* no service call failed during the returned ingestion call r, the swallowed
\* deletes included
NoFailure(r) == r.loc.errs = {} /\ r.loc.cleared /\ r.loc.deleted

C3_ProjectsReplaced ==
    (Idle(1) /\ ret[1].op \in {"profile", "projects"} /\ ret[1].value
             /\ NoFailure(ret[1]))
        => DocsOf(corpus, "project", ret[1].loc.uid)
             = Range(ProjectDocs(IF ret[1].op = "profile"
                                 THEN ProjectListOf(ret[1].args.profile_data)
                                 ELSE ret[1].args.projects_list,
                                 ret[1].loc.uid))

\* C10: an ingestion call returns True only when no unexpected error occurred
\* during it (a swallowed delete failure is not counted), the project
\* ingestion a profile ingestion delegates to included.
C10_TrueOnlyWithoutError ==
    \A p \in DOMAIN ret :
        (ret[p].op \in {"profile", "projects", "conversation"} /\ ret[p].value)
            => ret[p].loc.errs = {}

-----------------------------------------------------------------------------
(* Claims about overlapping profile ingestions (SpecRace) *)

\* C2: once two overlapping profile ingestions for the same owner have both
\* completed (here: both returned True, no service call of either failed),
\* the owner's profile documents are exactly the documents of one of the two
\* calls, never a mixture of both.
C2_OneGeneration ==
    (/\ Idle(1) /\ Idle(2)
     /\ ret[1].op = "profile" /\ ret[2].op = "profile"
     /\ ret[1].loc.uid = ret[2].loc.uid
     /\ ret[1].value /\ ret[2].value
     /\ NoFailure(ret[1]) /\ NoFailure(ret[2]))
        => \/ ExactlyProfile(corpus, ret[1].args.profile_data, ret[1].loc.uid)
           \/ ExactlyProfile(corpus, ret[2].args.profile_data, ret[2].loc.uid)

-----------------------------------------------------------------------------
(* Claims about malformed project records (SpecRecords) *)

HasId(project) == "id" \in DOMAIN project /\ TruthyId(project["id"])

\* the content is not JSON, or JSON without an HTML rendition
Unrendered(content) ==
    JsonLoads(content).kind # "dict" \/ JsonLoads(content).html = <<>>

\* C17 (for calls during which no service call failed): a project ingestion
\* over a list with malformed records returns True; a project without an id
\* or with an empty id has no document; a project whose content cannot be
\* parsed or has no HTML rendition has its raw content as the content
\* document; and every project with an id has its title, description,
\* details and content documents stored.
C17_MalformedSkipped ==
    \A p \in DOMAIN ret :
        ( /\ Idle(p) /\ ret[p].op = "projects"
          /\ ret[p].loc.errs = {} /\ ret[p].loc.deleted )
        => LET projects_list == ret[p].args.projects_list
               uid == ret[p].args.user_id
               stored == DocsOf(corpus, "project", uid)
               Stored(id, sub, text) ==
                   \E d \in stored : /\ d.id = id /\ d.text = text
                                      /\ d.meta.subcategory = sub
           IN  /\ ~ret[p].raised /\ ret[p].value = TRUE
               /\ \A d \in stored :
                     /\ d.meta.project_id # ""
                     /\ \E j \in 1..Len(projects_list) :
                           /\ HasId(projects_list[j])
                           /\ d.meta.project_id = projects_list[j].id
               /\ \A j \in 1..Len(projects_list) :
                     LET project == projects_list[j]
                     IN  HasId(project) =>
                           /\ \A sub \in {"title", "description", "details"} :
                                 Truthy(project, sub) =>
                                    Stored("project_" \o sub \o "_" \o project.id \o "_" \o uid,
                                           sub, project[sub])
                           /\ Truthy(project, "content") =>
                                 \E d \in stored :
                                    /\ d.id = "project_content_" \o project.id \o "_" \o uid
                                    /\ d.meta.subcategory = "content"
                                    /\ Unrendered(project.content) => d.text = project.content

\* a list with a record without id, a content that is no JSON and a content
\* without HTML has been ingested, and the documents of the two projects
\* with an id are stored
C17_Witness ==
    \E p \in DOMAIN ret :
        /\ Idle(p) /\ ret[p].op = "projects" /\ ret[p].value = TRUE
        /\ ret[p].loc.errs = {} /\ ret[p].loc.deleted
        /\ ret[p].args.projects_list = <<ProjBadJson, ProjNoId, ProjNoHtml>>
        /\ {d.id : d \in DocsOf(corpus, "project", "u2")}
              = {"project_description_p5_u2", "project_content_p5_u2",
                 "project_title_p3_u2", "project_content_p3_u2"}

-----------------------------------------------------------------------------
(* Claims about retrieval (SpecQuery) *)

Returned(p, op) == Idle(p) /\ ret[p].op = op /\ ~ret[p].raised

\* the j-th smallest element of a set of indices
Kth(K, j) == CHOOSE i \in K : Cardinality({x \in K : x <= i}) = j

\* the entries of s at the indices K, in their order in s
Restrict(s, K) == [j \in 1..Cardinality(K) |-> s[Kth(K, j)]]

\* the three lists describe entries: equally long, every metadata a mapping
WellFormed(m) ==
    /\ Len(m.documents) = Len(m.metadatas)
    /\ Len(m.distances) = Len(m.metadatas)
    /\ \A i \in 1..Len(m.metadatas) : IsMapping(m.metadatas[i])

\* C4: with an owner given, the returned lists are the merged lists
\* restricted to the entries whose category is conversation or whose user_id
\* is the owner, in their order, document, metadata and distance of an entry
\* at the same index.
C4_OwnerFilter ==
    \A p \in DOMAIN ret :
        (/\ Returned(p, "query") /\ TruthyId(ret[p].args.user_id)
         /\ ret[p].loc.calls # <<>> /\ "query1" \notin ret[p].loc.errs
         /\ WellFormed(ret[p].loc.merged))
        => LET m == ret[p].loc.merged
               K == {i \in 1..Len(m.metadatas) :
                        \/ m.metadatas[i].category = "conversation"
                        \/ /\ "user_id" \in DOMAIN m.metadatas[i]
                           /\ m.metadatas[i].user_id = ret[p].args.user_id}
           IN  /\ ret[p].value.documents = Restrict(m.documents, K)
               /\ ret[p].value.metadatas = Restrict(m.metadatas, K)
               /\ ret[p].value.distances = Restrict(m.distances, K)

\* Owner u1 queried a corpus of one u2 document, one u1 document and one
\* conversation document without user_id: 2 of the 3 merged entries returned.
C4_Witness ==
    /\ Returned(1, "query") /\ ret[1].args.user_id = "u1"
    /\ WellFormed(ret[1].loc.merged)
    /\ Len(ret[1].loc.merged.documents) = 3
    /\ Len(ret[1].value.documents) = 2
    /\ \E i \in 1..3 : /\ ret[1].loc.merged.metadatas[i].category = "profile"
                        /\ ret[1].loc.merged.metadatas[i].user_id = "u2"
    /\ \E i \in 1..2 : /\ ret[1].value.metadatas[i].category = "conversation"
                        /\ "user_id" \notin DOMAIN ret[1].value.metadatas[i]

\* C5: no stored document appears more than once in the returned lists.
C5_NoDuplicates ==
    \A p \in DOMAIN ret :
        (Returned(p, "query") /\ ret[p].loc.errs = {})
        => \A i, j \in 1..Len(ret[p].value.documents) :
              (/\ ret[p].value.documents[i] = ret[p].value.documents[j]
               /\ ret[p].value.metadatas[i] = ret[p].value.metadatas[j]
               /\ ret[p].value.distances[i] = ret[p].value.distances[j]) => i = j

\* C6: on an empty corpus, query returns the empty result set and issues no
\* semantic query call.
C6_EmptyCorpusNoCall ==
    \A p \in DOMAIN ret :
        (Idle(p) /\ ret[p].op = "query" /\ corpus = {})
        => /\ ~ret[p].raised
           /\ ret[p].value = EmptyResult
           /\ ret[p].loc.calls = <<>>

\* A query with a visitor and an owner returned from the empty corpus after
\* a successful count.
C6_Witness ==
    /\ Returned(1, "query") /\ corpus = {}
    /\ ret[1].loc.errs = {}
    /\ ret[1].args.visitor_id = "v1" /\ ret[1].args.include_conversation
    /\ ret[1].args.user_id = "u1"

\* the steps whose failure ends the retrieval
FatalSteps == {"getcoll", "count", "query1", "filter"}

\* C7: query never raises, and a failure of obtaining the collection, of
\* counting, of the first query or of the filtering yields the empty result set.
C7_NeverRaises ==
    \A p \in DOMAIN ret :
        (Idle(p) /\ ret[p].op = "query")
        => /\ ~ret[p].raised
           /\ (ret[p].loc.errs \cap FatalSteps # {}) => ret[p].value = EmptyResult

\* The filtering met a None metadata in a non-empty first response and the
\* caller got the empty result set.
C7_Witness ==
    /\ Returned(1, "query")
    /\ "filter" \in ret[1].loc.errs
    /\ ret[1].loc.merged.documents # <<>>
    /\ \E i \in 1..Len(ret[1].loc.merged.metadatas) :
          ~IsMapping(ret[1].loc.merged.metadatas[i])
    /\ ret[1].value = EmptyResult

\* the entries of the first query's response that the call returns: all of
\* them, or with an owner given those the owner filter keeps
FirstQueryEntries(top, user_id) ==
    LET first == ResponseOf(top, top)
        K == {i \in 1..Len(top) :
                ~TruthyId(user_id) \/ top[i].meta.category = "conversation"
                    \/ GetId(top[i].meta, "user_id") = user_id}
    IN  [documents |-> Restrict(first.documents, K),
         metadatas |-> Restrict(first.metadatas, K),
         distances |-> Restrict(first.distances, K)]

\* C16 (for calls whose first query got a response with a mapping for every
\* match): the returned documents, metadatas and distances are equally long
\* and index i of each describes the same stored document; and when the
\* conversation query fails, in the service call or partway through the
\* appending of its matches, the entries of the first query are returned
\* intact and aligned.
C16_AlignedResults ==
    \A p \in DOMAIN ret :
        ( /\ Returned(p, "query")
          /\ \A i \in 1..Len(ret[p].loc.top) :
                IsMapping(ret[p].loc.results.metadatas[i]) )
        => LET v == ret[p].value
               loc == ret[p].loc
               first == FirstQueryEntries(loc.top, ret[p].args.user_id)
               n == Len(first.documents)
           IN  /\ Len(v.documents) = Len(v.metadatas)
               /\ Len(v.distances) = Len(v.metadatas)
               /\ \A i \in 1..Len(v.documents) :
                     \E d \in corpus :
                        v.documents[i] = d.text /\ v.metadatas[i] = d.meta
               /\ (loc.errs \cap {"query2", "append"} # {})
                     => /\ Take(v.documents, n) = first.documents
                        /\ Take(v.metadatas, n) = first.metadatas
                        /\ Take(v.distances, n) = first.distances

-----------------------------------------------------------------------------
(* Claims about generation (SpecGenerate) *)

\* C8: a rate-limit error of the language-model call yields the rate-limit
\* apology and a connectivity error the connectivity apology.
C8_ApologyPerCategory ==
    \A p \in DOMAIN ret :
        (Returned(p, "generate") /\ ret[p].loc.llm # "none")
        => /\ ret[p].loc.llm = "RateLimitError" => ret[p].value = RateLimitApology
           /\ IsInstance(ret[p].loc.llm, "APIConnectionError")
                 => ret[p].value = ConnectionApology

\* what generate_ai_response gave its caller is a non-empty string
NonEmptyString(raised, value) == ~raised /\ value # PyNone /\ value # ""

\* C9: generate never raises and always returns a non-empty string, called
\* directly or by the chat route with what query returned.
C9_AlwaysNonEmptyString ==
    \A p \in DOMAIN ret :
        /\ (Idle(p) /\ ret[p].op = "generate")
              => NonEmptyString(ret[p].raised, ret[p].value)
        /\ (Idle(p) /\ ret[p].op = "chat" /\ "generated" \in DOMAIN ret[p].loc
                    /\ ret[p].loc.generated.called)
              => NonEmptyString(ret[p].loc.generated.raised, ret[p].loc.generated.value)

-----------------------------------------------------------------------------
(* Claims about what ingestion leaves alone *)

ConversationDocs(c) == {d \in c : d.meta.category = "conversation"}

\* the id under which the conversation ingestion of p stores its exchange
MessageIdOf(p) ==
    IF TruthyId(args[p].message_id) THEN args[p].message_id ELSE args[p].uuid

\* C11: no step of any ingestion, in any interleaving of two callers, removes
\* or alters a conversation document of the corpus, and a conversation
\* ingestion that succeeds with a message id not yet stored adds exactly one
\* document: id "conversation_<message_id>", category conversation,
\* subcategory exchange, the given visitor_id.
C11_ConversationsAccumulate ==
    [][ /\ ConversationDocs(corpus) \subseteq ConversationDocs(corpus')
        /\ \A p \in DOMAIN pc :
              ( /\ pc[p] = "V_add" /\ pc'[p] = "idle"
                /\ ret'[p].value = TRUE
                /\ ("conversation_" \o MessageIdOf(p)) \notin Ids(corpus) )
              => \E d \in corpus' :
                    /\ d \notin corpus
                    /\ corpus' = corpus \cup {d}
                    /\ d.id = "conversation_" \o MessageIdOf(p)
                    /\ d.meta.category = "conversation"
                    /\ d.meta.subcategory = "exchange"
                    /\ d.meta.visitor_id = args[p].visitor_id
      ]_vars

\* next to the conversation document of the first call a second one is
\* stored, by a conversation ingestion with a new message id that returned
\* True, while a project ingestion of the other caller has cleared the
\* project documents and is about to add its own
C11_Witness ==
    /\ Ids(ConversationDocs(corpus)) = {"conversation_uuid0", "conversation_m1"}
    /\ \E p, q \in DOMAIN ret :
          /\ ret[p].op = "conversation" /\ ret[p].value = TRUE
          /\ pc[q] = "J_add" /\ args[q].op = "projects" /\ locals[q].deleted

\* C15: an ingestion for one owner leaves the documents of every other owner
\* in the corpus: a step of a profile or project ingestion removes only
\* documents whose user_id is the owner the call is for.
C15_OtherOwnersKept ==
    [][ \A d \in corpus \ corpus' :
            GetId(d.meta, "user_id") = locals[1].uid ]_vars

-----------------------------------------------------------------------------
(* Claims about chunking (SpecChunk) *)

\* a project ingestion of p returned True after its delete and its add
IngestedProjects(p) ==
    /\ Returned(p, "projects") /\ ret[p].value = TRUE
    /\ ret[p].loc.deleted /\ ret[p].loc.errs = {}

\* the content documents of a project in the corpus
ContentDocs(project_id) ==
    {d \in corpus : /\ d.meta.category = "project"
                    /\ d.meta.subcategory = "content"
                    /\ d.meta.project_id = project_id}

FirstChars(s, n) == SubSeq(s, 1, Min(n, Len(s)))
LastChars(s, n) == SubSeq(s, Len(s) - Min(n, Len(s)) + 1, Len(s))

\* C12: for a content text longer than 1000 characters the stored chunks
\* are the windows text[k*900 : k*900+1000] for every start below the text
\* length: the first 900 characters of the chunks, concatenated in order,
\* are the text; no chunk is empty; and adjacent chunks other than the last
\* pair share exactly 100 characters.
C12_ChunkWindows ==
    \A p \in DOMAIN ret :
        IngestedProjects(p) =>
            \A j \in 1..Len(ret[p].args.projects_list) :
                LET project == ret[p].args.projects_list[j]
                    text == project.content
                    n == Len(text)
                    docs == ContentDocs(project.id)
                    total == Cardinality(docs)
                    chunk(k) == (CHOOSE d \in docs : d.meta.chunk_index = k).text
                IN  n > 1000 =>
                      /\ {d.meta.chunk_index : d \in docs} = 0..(total - 1)
                      /\ \A k \in 0..(total - 1) : k * 900 < n
                      /\ total * 900 >= n
                      /\ \A k \in 0..(total - 1) :
                            /\ chunk(k) = SubSeq(text, k * 900 + 1, Min(k * 900 + 1000, n))
                            /\ chunk(k) # <<>>
                      /\ Flatten([k \in 1..total |-> FirstChars(chunk(k - 1), 900)]) = text
                      /\ \A k \in 0..(total - 3) :
                            /\ Len(chunk(k)) = 1000
                            /\ Len(chunk(k + 1)) >= 100
                            /\ LastChars(chunk(k), 100) = FirstChars(chunk(k + 1), 100)

\* a text of more than three windows whose last window is shorter than the
\* overlap has been ingested
C12_Witness ==
    \E p \in DOMAIN ret :
        /\ IngestedProjects(p)
        /\ Len(ret[p].args.projects_list[1].content) = 2701
        /\ Cardinality(ContentDocs("p1")) = 4

-----------------------------------------------------------------------------
(* Claims about the prompt (SpecGenerate) *)

\* generate_ai_response of p got as far as its return statement
Generated(p) == Returned(p, "generate") /\ ~ret[p].raised

IsLetter(ch) == ch \in Range(LowerCase) \cup Range(UpperCase)

\* the letters s starts with
RECURSIVE LeadingWord(_)
LeadingWord(s) ==
    IF s = <<>> \/ ~IsLetter(Head(s)) THEN <<>>
    ELSE <<Head(s)>> \o LeadingWord(Tail(s))

\* the name that follows the first "I am " of a bio
NameToken(bio) == LeadingWord(SubSeq(bio, Find(bio, IAm) + Len(IAm), Len(bio)))

\* the persona name as the resolution rule states it
StatedPersonaName(profile_data) ==
    LET name == FieldOf(profile_data, "name")
        bio == FieldOf(profile_data, "bio")
    IN  IF Strip(name) # <<>> THEN Strip(name)
        ELSE IF Find(bio, IAm) # 0 /\ Len(NameToken(bio)) > 2 THEN NameToken(bio)
        ELSE ThePerson

\* C13: the persona name is the trimmed name of the profile when it is not
\* blank; else the name that follows "I am " in the bio when it is longer
\* than 2 characters ("Grace" for the bio "I am Grace, a pioneer"); else
\* "the person".
C13_PersonaName ==
    \A p \in DOMAIN ret :
        Generated(p) =>
            ret[p].loc.prompt.user_name = StatedPersonaName(ret[p].loc.profile_data)

\* the seven lines of the profile block as the assembly rule states them:
\* every field in the fixed order, its value or "Not provided"
StatedProfileBlock(profile_data) ==
    Flatten([i \in 1..7 |->
        LET f == <<"name", "location", "bio", "skills", "experience",
                   "projects", "interests">>[i]
        IN  Upper(TextOf(f)) \o <<":", " ">>
              \o (IF f \in DOMAIN profile_data THEN profile_data[f] ELSE NotProvided)
              \o <<"\n">>])

\* C14: no block of the prompt is missing: with empty search results the
\* relevant-context block is the "No specific information available"
\* placeholder, and the profile block is never empty and lists the seven
\* fields in order, each as its value or "Not provided", also when there is
\* no profile at all.
C14_NoBlockMissing ==
    \A p \in DOMAIN ret :
        Generated(p) =>
            LET loc == ret[p].loc
            IN  /\ loc.search_results.documents = <<>>
                     => loc.prompt.context = NoInformation
                /\ loc.prompt.profile_context # <<>>
                /\ Find(loc.prompt.profile_context,
                        StatedProfileBlock(loc.profile_data)) # 0

====
